---- MODULE Spec2Model ----
(***************************************************************************)
(* The Coral web dashboard (web-dashboard/app.py): a Flask gateway whose   *)
(* handlers shell out to coral-cli.  A Python str is modelled as a         *)
(* sequence of tokens (a token is a run of characters that the code never  *)
(* looks inside); Python values are tagged records.  The external process  *)
(* is an opaque collaborator: every invocation's outcome is an input.      *)
(***************************************************************************)
EXTENDS Integers, Sequences, FiniteSets, TLC

VARIABLES
    pc,      \* "idle" | "loop" (inside get_recent_blocks) | "done"
    op,      \* the handler that ran (or is running)
    req,     \* its caller-supplied input
    calls,   \* the subprocess.run invocations it made, in order
    resp,    \* the value handed to jsonify(), PyNone before that
    raised,  \* the exception that escaped the handler, "" when none did
    loc      \* get_recent_blocks' locals

vars == <<pc, op, req, calls, resp, raised, loc>>

----------------------------------------------------------------------------
(* Bounds of the model *)

\* the longest stdout text drawn for the decoder, in tokens
MaxStdoutLen == 4
\* the largest number a numeric token may spell
MaxNum == 12
\* the largest chain height getblockchaininfo reports
MaxHeight == 10

----------------------------------------------------------------------------
(* Python values *)

PyNone == [t |-> "none"]
PyStr(s) == [t |-> "str", s |-> s]
PyInt(n) == [t |-> "int", n |-> n]
PyBool(b) == [t |-> "bool", b |-> b]
PyList(items) == [t |-> "list", items |-> items]
PyDict(d) == [t |-> "dict", d |-> d]

IsStr(v) == v.t = "str"
IsList(v) == v.t = "list"
IsDict(v) == v.t = "dict"

\* 'k' in d
HasKey(v, k) == k \in DOMAIN v.d

\* d.get(k, default)
DictGet(v, k, default) == IF k \in DOMAIN v.d THEN v.d[k] ELSE default

\* Python truthiness (bool(v))
Truthy(v) ==
    CASE v.t = "none" -> FALSE
      [] v.t = "str" -> Len(v.s) > 0
      [] v.t = "int" -> v.n # 0
      [] v.t = "bool" -> v.b
      [] v.t = "list" -> Len(v.items) > 0
      [] v.t = "dict" -> DOMAIN v.d # {}

\* {'error': detail}
ErrorDict(detail) == PyDict(<<"error">> :> PyStr(detail))

\* isinstance(v, dict) and 'error' in v
IsErrorDict(v) == IsDict(v) /\ HasKey(v, <<"error">>)

----------------------------------------------------------------------------
(* Python str operations, on token sequences *)

\* what str.strip() and str.split() treat as whitespace
StripWs == {" ", "\n", "\f"}
\* what the JSON grammar treats as whitespace (form feed is not)
JsonWs == {" ", "\n"}

\* the tokens that spell a number
NumToks == {ToString(n) : n \in 0..MaxNum}
IsNumTok(tok) == tok \in NumToks
NumOf(tok) == CHOOSE n \in 0..MaxNum : ToString(n) = tok

RECURSIVE LStrip(_)
LStrip(s) == IF Len(s) > 0 /\ s[1] \in StripWs THEN LStrip(Tail(s)) ELSE s

RECURSIVE RStrip(_)
RStrip(s) ==
    IF Len(s) > 0 /\ s[Len(s)] \in StripWs THEN RStrip(SubSeq(s, 1, Len(s) - 1)) ELSE s

\* s.strip()
Strip(s) == RStrip(LStrip(s))

\* s.split(): the maximal runs of non-whitespace tokens
RECURSIVE SplitFrom(_, _, _)
SplitFrom(s, word, acc) ==
    IF Len(s) = 0 THEN (IF Len(word) > 0 THEN Append(acc, word) ELSE acc)
    ELSE IF s[1] \in StripWs
         THEN SplitFrom(Tail(s), <<>>, IF Len(word) > 0 THEN Append(acc, word) ELSE acc)
         ELSE SplitFrom(Tail(s), Append(word, s[1]), acc)

Split(s) == SplitFrom(s, <<>>, <<>>)

\* s.isdigit()
IsDigit(s) == Len(s) > 0 /\ \A i \in 1..Len(s) : IsNumTok(s[i])

\* str(v), as the f-strings and str() calls of the handlers use it
StrOf(v) ==
    CASE v.t = "str" -> v.s
      [] v.t = "int" -> IF v.n < 0 THEN <<"-", ToString(-v.n)>> ELSE <<ToString(v.n)>>
      [] v.t = "bool" -> IF v.b THEN <<"True">> ELSE <<"False">>
      [] v.t = "none" -> <<"None">>

\* sub in s (a contiguous run of tokens)
Contains(s, sub) ==
    \E i \in 0..(Len(s) - Len(sub)) : SubSeq(s, i + 1, i + Len(sub)) = sub

----------------------------------------------------------------------------
(* json.loads, on token sequences: numbers, strings, lists and objects *)

RECURSIVE SkipWs(_, _)
SkipWs(s, i) == IF i <= Len(s) /\ s[i] \in JsonWs THEN SkipWs(s, i + 1) ELSE i

\* the index of the closing quote of the string literal opened before i, 0 if none
RECURSIVE CloseQuote(_, _)
CloseQuote(s, i) ==
    IF i > Len(s) THEN 0 ELSE IF s[i] = "\"" THEN i ELSE CloseQuote(s, i + 1)

ParseFail == [ok |-> FALSE, val |-> PyNone, next |-> 0]
ParseOk(v, n) == [ok |-> TRUE, val |-> v, next |-> n]

RECURSIVE ParseValue(_, _)
RECURSIVE ParseItems(_, _, _)
RECURSIVE ParseMembers(_, _, _)

\* a string literal whose opening quote is at i and whose closing quote is at j
ParseString(s, i, j) ==
    IF j = 0 THEN ParseFail ELSE ParseOk(PyStr(SubSeq(s, i + 1, j - 1)), j + 1)

\* the value that starts at i, the first token that is not whitespace
ParseAt(s, i) ==
    IF i > Len(s) THEN ParseFail
    ELSE IF IsNumTok(s[i]) THEN ParseOk(PyInt(NumOf(s[i])), i + 1)
    ELSE IF s[i] = "-"
         THEN IF i + 1 <= Len(s) /\ IsNumTok(s[i + 1])
              THEN ParseOk(PyInt(-NumOf(s[i + 1])), i + 2)
              ELSE ParseFail
    ELSE IF s[i] = "\"" THEN ParseString(s, i, CloseQuote(s, i + 1))
    ELSE IF s[i] = "[" THEN ParseItems(s, i + 1, <<>>)
    ELSE IF s[i] = "{" THEN ParseMembers(s, i + 1, <<>>)
    ELSE ParseFail

ParseValue(s, i0) == ParseAt(s, SkipWs(s, i0))

\* after an item: "," and the next item, or "]"
ParseItemsNext(s, j, acc) ==
    IF j > Len(s) THEN ParseFail
    ELSE IF s[j] = "," THEN ParseItems(s, j + 1, acc)
    ELSE IF s[j] = "]" THEN ParseOk(PyList(acc), j + 1)
    ELSE ParseFail

ParseItem(s, v, acc) ==
    IF ~v.ok THEN ParseFail
    ELSE ParseItemsNext(s, SkipWs(s, v.next), Append(acc, v.val))

\* the items of a list from i on; "]" at once closes the empty list only
ParseItemsAt(s, i, acc) ==
    IF i <= Len(s) /\ s[i] = "]"
    THEN (IF Len(acc) = 0 THEN ParseOk(PyList(<<>>), i + 1) ELSE ParseFail)
    ELSE ParseItem(s, ParseAt(s, i), acc)

ParseItems(s, i0, acc) == ParseItemsAt(s, SkipWs(s, i0), acc)

\* after a member: "," and the next member, or "}"
ParseMembersNext(s, j, d) ==
    IF j > Len(s) THEN ParseFail
    ELSE IF s[j] = "," THEN ParseMembers(s, j + 1, d)
    ELSE IF s[j] = "}" THEN ParseOk(PyDict(d), j + 1)
    ELSE ParseFail

\* a repeated key keeps its last value
ParseMemberValue(s, key, v, acc) ==
    IF ~v.ok THEN ParseFail
    ELSE ParseMembersNext(s, SkipWs(s, v.next), (key :> v.val) @@ acc)

ParseColon(s, key, c, acc) ==
    IF c > Len(s) \/ s[c] # ":" THEN ParseFail
    ELSE ParseMemberValue(s, key, ParseValue(s, c + 1), acc)

ParseKey(s, i, q, acc) ==
    IF q = 0 THEN ParseFail
    ELSE ParseColon(s, SubSeq(s, i + 1, q - 1), SkipWs(s, q + 1), acc)

\* the members of an object from i on; "}" at once closes the empty object only
ParseMembersAt(s, i, acc) ==
    IF i > Len(s) THEN ParseFail
    ELSE IF s[i] = "}"
         THEN (IF DOMAIN acc = {} THEN ParseOk(PyDict(<<>>), i + 1) ELSE ParseFail)
    ELSE IF s[i] # "\"" THEN ParseFail
    ELSE ParseKey(s, i, CloseQuote(s, i + 1), acc)

ParseMembers(s, i0, acc) == ParseMembersAt(s, SkipWs(s, i0), acc)

\* the parse is a whole-text one: only whitespace may follow the value
ParseWhole(s, v) == IF v.ok /\ SkipWs(s, v.next) > Len(s) THEN v ELSE ParseFail

\* json.loads(s): ok is FALSE where it raises JSONDecodeError
json_loads(s) == ParseWhole(s, ParseValue(s, 1))

----------------------------------------------------------------------------
(* Configuration *)

CORAL_CLI == <<"coral-cli">>
DATADIR == <<"~/Library/Application Support/Coral">>

\* the timeout of subprocess.run in coral_cli and in most handlers, in seconds
DEFAULT_TIMEOUT == 30
SEND_TIMEOUT == 60
IMPORT_TIMEOUT == 300
RESCAN_TIMEOUT == 600

\* f'-datadir={DATADIR}'
DatadirFlag == PyStr(<<"-datadir=">> \o DATADIR)
\* f'-rpcwallet={name}'
WalletFlag(name) == PyStr(<<"-rpcwallet=">> \o StrOf(name))

----------------------------------------------------------------------------
(* subprocess.run: the raw outcome of one invocation is the environment's *)

Exited(code, stdout, stderr) ==
    [kind |-> "exit", code |-> code, stdout |-> stdout, stderr |-> stderr, cause |-> <<>>]
\* subprocess.TimeoutExpired
TimedOut ==
    [kind |-> "timeout", code |-> 0, stdout |-> <<>>, stderr |-> <<>>, cause |-> <<>>]
\* any other exception of subprocess.run (the executable is missing, ...)
FailedToStart(cause) ==
    [kind |-> "oserror", code |-> 0, stdout |-> <<>>, stderr |-> <<>>, cause |-> cause]
\* no process: the argument vector held a value that is not a str (TypeError)
NotSpawned ==
    [kind |-> "typeerror", code |-> 0, stdout |-> <<>>, stderr |-> <<>>, cause |-> <<>>]

TypeErrorText == <<"expected str, bytes or os.PathLike object">>

\* str(e) of a TimeoutExpired: "Command '...' timed out after N seconds"
TimeoutExpiredText(timeout) ==
    <<"Command", " ", "timed out", " ", "after", " ", ToString(timeout), " ", "seconds">>

\* One subprocess.run(cmd, capture_output=True, text=True, timeout=timeout) as the
\* handlers log it: a process is spawned only when every element of cmd is a str.
RunCall(cmd, timeout, o) ==
    LET spawned == \A i \in 1..Len(cmd) : IsStr(cmd[i]) IN
    [argv |-> cmd, timeout |-> timeout, spawned |-> spawned,
     outcome |-> IF spawned THEN o ELSE NotSpawned]

\* str(e) for the exception a call ended with
ExcText(call) ==
    CASE call.outcome.kind = "timeout" -> TimeoutExpiredText(call.timeout)
      [] call.outcome.kind = "oserror" -> call.outcome.cause
      [] call.outcome.kind = "typeerror" -> TypeErrorText

----------------------------------------------------------------------------
(* coral_cli: the command proxy *)

\* the list of the words of command, each a str
RECURSIVE StrList(_)
StrList(words) ==
    IF Len(words) = 0 THEN <<>> ELSE <<PyStr(words[1])>> \o StrList(Tail(words))

\* the argument vector with the data directory flag put last
CliArgv_FlagLast(command, args) ==
    <<PyStr(CORAL_CLI)>> \o StrList(Split(command)) \o args \o <<DatadirFlag>>

\* cmd = [CORAL_CLI, f'-datadir={DATADIR}'] + command.split() + list(args)
CliArgv(command, args) ==
    <<PyStr(CORAL_CLI), DatadirFlag>> \o StrList(Split(command)) \o args

\* CliDecode without the returncode test: stdout is decoded whatever the exit status
CliDecode_IgnoreExit(call) ==
    LET o == call.outcome IN
    IF o.kind = "timeout" THEN ErrorDict(<<"Command timed out">>)
    ELSE IF o.kind # "exit" THEN ErrorDict(ExcText(call))
    ELSE IF json_loads(o.stdout).ok THEN json_loads(o.stdout).val
    ELSE PyStr(Strip(o.stdout))

\* the value coral_cli returns for a call that ended with outcome call.outcome
CliDecode(call) ==
    LET o == call.outcome IN
    IF o.kind = "timeout" THEN ErrorDict(<<"Command timed out">>)
    ELSE IF o.kind # "exit" THEN ErrorDict(ExcText(call))
    ELSE IF o.code = 0
         THEN LET j == json_loads(o.stdout) IN
              IF j.ok THEN j.val ELSE PyStr(Strip(o.stdout))
    ELSE ErrorDict(Strip(o.stderr))

\* coral_cli(command, *args) when the process ends with outcome o:
\* the call it made and the value it returns
coral_cli(command, args, o) ==
    LET call == RunCall(CliArgv(command, args), DEFAULT_TIMEOUT, o) IN
    [call |-> call, ret |-> CliDecode(call)]

----------------------------------------------------------------------------
(* The decoder on its own: coral_cli applied to every raw outcome *)

DecodeAlphabet == {" ", "\f", "[", "]", ",", "1", "a", "\""}

TokSeqs(alphabet, n) == UNION {[1..k -> alphabet] : k \in 0..n}

DecodeStderrs == {<<>>, <<"boom">>, <<" ", "error:", " ", "boom", "\n">>}
DecodeCauses == {<<"[Errno 2] No such file or directory">>}

DecodeOutcomes ==
    {Exited(0, out, <<>>) : out \in TokSeqs(DecodeAlphabet, MaxStdoutLen)}
    \cup {Exited(code, out, err) :
            code \in {1, 2}, out \in {<<>>, <<"[", "1", "]">>}, err \in DecodeStderrs}
    \cup {Exited(0, <<"[", "1", "]">>, err) : err \in DecodeStderrs}
    \cup {TimedOut}
    \cup {FailedToStart(c) : c \in DecodeCauses}

Idle ==
    /\ pc = "idle"
    /\ op = "none"
    /\ req = PyNone
    /\ calls = <<>>
    /\ resp = PyNone
    /\ raised = ""
    /\ loc = PyNone

\* the handler ran to its return (or to the exception that left it)
Handled(name, r, res) ==
    /\ pc' = "done"
    /\ op' = name
    /\ req' = r
    /\ calls' = res.calls
    /\ resp' = res.resp
    /\ raised' = res.raised
    /\ loc' = PyNone

\* return jsonify(v), after the invocations cs
Result(cs, v) == [calls |-> cs, resp |-> v, raised |-> ""]
\* an exception left the handler, after the invocations cs
Raised(cs, exc) == [calls |-> cs, resp |-> PyNone, raised |-> exc]

\* Flask is done with the request: nothing of it is kept for the next one
finish_request ==
    /\ pc = "done"
    /\ pc' = "idle"
    /\ op' = "none"
    /\ req' = PyNone
    /\ calls' = <<>>
    /\ resp' = PyNone
    /\ raised' = ""
    /\ loc' = PyNone

InitDecode == Idle

\* a caller of coral_cli: one command without arguments, one with
run_coral_cli ==
    /\ pc = "idle"
    /\ \E a \in {<<>>, <<PyStr(<<"00ab">>)>>}, o \in DecodeOutcomes :
         LET r == coral_cli(<<"getinfo">>, a, o) IN
         Handled("coral_cli", PyList(a), Result(<<r.call>>, r.ret))

NextDecode == run_coral_cli \/ finish_request

SpecDecode == InitDecode /\ [][NextDecode]_vars

----------------------------------------------------------------------------
(* The gateway: what the callers send and what the processes answer *)

Lit(tok) == PyStr(<<tok>>)

\* {k1: v1, ...} literals
Dict1(k1, v1) == PyDict(<<k1>> :> v1)
Dict2(k1, v1, k2, v2) == PyDict((<<k1>> :> v1) @@ (<<k2>> :> v2))
Dict3(k1, v1, k2, v2, k3, v3) ==
    PyDict((<<k1>> :> v1) @@ (<<k2>> :> v2) @@ (<<k3>> :> v3))

\* request.json or {}
JsonOrEmpty(body) == IF Truthy(body) THEN body ELSE PyDict(<<>>)

\* wallet names of the URL path
Names == {Lit("w1"), PyStr(<<"my", " ", "wallet">>)}

StdoutWallets == <<"[", "\"", "w1", "\"", ",", " ", "\"", "w2", "\"", "]", "\n">>
StdoutChain == <<"{", "\"", "blocks", "\"", ":", " ", "3", "}", "\n">>
StderrBoom == <<"error:", " ", "boom", "\n">>
CauseNoFile == <<"[Errno 2] No such file or directory">>

\* what a process may answer, whatever the command
RawOutcomes ==
    {Exited(0, out, <<>>) :
        out \in {<<>>, <<"[", "]", "\n">>, StdoutWallets, StdoutChain,
                 <<"00ab", "\n">>, <<"5", "\n">>}}
    \cup {Exited(1, <<>>, StderrBoom), TimedOut, FailedToStart(CauseNoFile)}

\* the invocation failed: timeout, failure to start, or non-zero exit
CallFailed(call) ==
    call.spawned /\ (call.outcome.kind # "exit" \/ call.outcome.code # 0)

\* the detail of a failed invocation, as coral_cli reports it
FailureDetail(call) ==
    IF call.outcome.kind = "exit" THEN Strip(call.outcome.stderr)
    ELSE IF call.outcome.kind = "timeout" THEN <<"Command timed out">>
    ELSE ExcText(call)

\* str(e) of the JSONDecodeError of json.loads
JSONDecodeErrorText == <<"Expecting value">>
\* str(e) of the ValueError of float()
FloatErrorText == <<"could not convert string to float">>

\* float(s) for a str: ok is FALSE where it raises ValueError
FloatOfStr(s) ==
    LET w == Strip(s) IN
    IF Len(w) = 1 /\ IsNumTok(w[1]) THEN [ok |-> TRUE, f |-> NumOf(w[1])]
    ELSE IF Len(w) = 2 /\ w[1] = "-" /\ IsNumTok(w[2]) THEN [ok |-> TRUE, f |-> -NumOf(w[2])]
    ELSE [ok |-> FALSE, f |-> 0]

\* float(v): err names the exception it raises
FloatOf(v) ==
    CASE v.t = "int" -> [ok |-> TRUE, f |-> v.n, err |-> ""]
      [] v.t = "bool" -> [ok |-> TRUE, f |-> IF v.b THEN 1 ELSE 0, err |-> ""]
      [] v.t = "str" -> [ok |-> FloatOfStr(v.s).ok, f |-> FloatOfStr(v.s).f, err |-> "ValueError"]
      [] OTHER -> [ok |-> FALSE, f |-> 0, err |-> "TypeError"]

PyFloat(f) == [t |-> "float", f |-> f]

\* The common shape of the handlers that run coral-cli themselves:
\*   if result.returncode == 0: return jsonify(<success>)
\*   return jsonify({'error': result.stderr.strip()})
\*   except Exception as e: return jsonify({'error': str(e)})
\* success is [ok, val, err]: the value, or the text of the exception raised
\* while computing it (inside the try).
DirectResult(call, success) ==
    IF call.outcome.kind # "exit" THEN Result(<<call>>, ErrorDict(ExcText(call)))
    ELSE IF call.outcome.code = 0
         THEN (IF success.ok THEN Result(<<call>>, success.val)
               ELSE Result(<<call>>, ErrorDict(success.err)))
    ELSE Result(<<call>>, ErrorDict(Strip(call.outcome.stderr)))

Value(v) == [ok |-> TRUE, val |-> v, err |-> <<>>]
\* json.loads(stdout) inside the try
Loads(stdout) ==
    [ok |-> json_loads(stdout).ok, val |-> json_loads(stdout).val, err |-> JSONDecodeErrorText]

----------------------------------------------------------------------------
(* Handlers, in the order of app.py *)

get_info ==
    /\ pc = "idle"
    /\ \E o1, o2, o3 \in RawOutcomes :
         LET blockchain == coral_cli(<<"getblockchaininfo">>, <<>>, o1)
             network == coral_cli(<<"getnetworkinfo">>, <<>>, o2)
             mining == coral_cli(<<"getmininginfo">>, <<>>, o3)
         IN Handled("get_info", PyNone,
                Result(<<blockchain.call, network.call, mining.call>>,
                       Dict3("blockchain", blockchain.ret, "network", network.ret,
                             "mining", mining.ret)))

\* result if isinstance(result, list) else []
ListOrEmpty(v) == IF IsList(v) THEN v ELSE PyList(<<>>)

get_wallets_result(o) ==
    LET wallets == coral_cli(<<"listwallets">>, <<>>, o) IN
    Result(<<wallets.call>>, Dict1("wallets", ListOrEmpty(wallets.ret)))

get_wallets ==
    /\ pc = "idle"
    /\ \E o \in RawOutcomes : Handled("get_wallets", PyNone, get_wallets_result(o))

get_wallet_info ==
    /\ pc = "idle"
    /\ \E name \in Names, o \in RawOutcomes :
         LET cmd == <<PyStr(CORAL_CLI), DatadirFlag, WalletFlag(name), Lit("getwalletinfo")>>
             call == RunCall(cmd, DEFAULT_TIMEOUT, o)
         IN Handled("get_wallet_info", name, DirectResult(call, Loads(o.stdout)))

get_balance ==
    /\ pc = "idle"
    /\ \E name \in Names, o \in RawOutcomes :
         LET cmd == <<PyStr(CORAL_CLI), DatadirFlag, WalletFlag(name), Lit("getbalance")>>
             call == RunCall(cmd, DEFAULT_TIMEOUT, o)
             f == FloatOfStr(o.stdout)
         IN Handled("get_balance", name,
                DirectResult(call, [ok |-> f.ok, val |-> Dict1("balance", PyFloat(f.f)),
                                    err |-> FloatErrorText]))

new_address ==
    /\ pc = "idle"
    /\ \E name \in Names, o \in RawOutcomes :
         LET cmd == <<PyStr(CORAL_CLI), DatadirFlag, WalletFlag(name), Lit("getnewaddress")>>
             call == RunCall(cmd, DEFAULT_TIMEOUT, o)
         IN Handled("new_address", name,
                DirectResult(call, Value(Dict1("address", PyStr(Strip(o.stdout))))))

get_transactions ==
    /\ pc = "idle"
    /\ \E name \in Names, o \in RawOutcomes :
         LET cmd == <<PyStr(CORAL_CLI), DatadirFlag, WalletFlag(name),
                      Lit("listtransactions"), Lit("*"), Lit("20")>>
             call == RunCall(cmd, DEFAULT_TIMEOUT, o)
             j == Loads(o.stdout)
         IN Handled("get_transactions", name,
                DirectResult(call, [j EXCEPT !.val = Dict1("transactions", j.val)]))

\* block identifiers of the URL path: a height, a hash, and two that only look numeric
BlockIds == {<<"3">>, <<"00ab">>, <<"3", "a">>, <<"-", "1">>}

\* get_block without the early return: the block is fetched whatever the lookup gave
get_block_result_NoAbort(hash_or_height, o1, o2) ==
    LET numeric == IsDigit(hash_or_height)
        lookup == coral_cli(<<"getblockhash">>, <<PyStr(hash_or_height)>>, o1)
        blockhash == IF numeric THEN lookup.ret ELSE PyStr(hash_or_height)
        block == coral_cli(<<"getblock">>, <<blockhash>>, o2)
    IN Result((IF numeric THEN <<lookup.call>> ELSE <<>>) \o <<block.call>>, block.ret)

get_block_result(hash_or_height, o1, o2) ==
    LET numeric == IsDigit(hash_or_height)
        lookup == coral_cli(<<"getblockhash">>, <<PyStr(hash_or_height)>>, o1)
        blockhash == IF numeric THEN lookup.ret ELSE PyStr(hash_or_height)
        block == coral_cli(<<"getblock">>, <<blockhash>>, o2)
    IN IF numeric /\ IsErrorDict(blockhash)
       THEN Result(<<lookup.call>>, blockhash)
       ELSE Result((IF numeric THEN <<lookup.call>> ELSE <<>>) \o <<block.call>>, block.ret)

get_block ==
    /\ pc = "idle"
    /\ \E id \in BlockIds, o1, o2 \in RawOutcomes :
         Handled("get_block", PyStr(id), get_block_result(id, o1, o2))

get_peers ==
    /\ pc = "idle"
    /\ \E o \in RawOutcomes :
         LET peers == coral_cli(<<"getpeerinfo">>, <<>>, o) IN
         Handled("get_peers", PyNone,
             Result(<<peers.call>>, Dict1("peers", ListOrEmpty(peers.ret))))

get_mempool ==
    /\ pc = "idle"
    /\ \E o \in RawOutcomes :
         LET info == coral_cli(<<"getmempoolinfo">>, <<>>, o) IN
         Handled("get_mempool", PyNone, Result(<<info.call>>, info.ret))

create_wallet ==
    /\ pc = "idle"
    /\ \E data \in {PyDict(<<>>), Dict1("name", Lit("w1"))}, o \in RawOutcomes :
         LET name == DictGet(data, <<"name">>, Lit("wallet"))
             result == coral_cli(<<"createwallet">>,
                           <<name, Lit("false"), Lit("false"), PyStr(<<>>),
                             Lit("false"), Lit("false")>>, o)
         IN Handled("create_wallet", data, Result(<<result.call>>, result.ret))

get_mining_info ==
    /\ pc = "idle"
    /\ \E o \in RawOutcomes :
         LET info == coral_cli(<<"getmininginfo">>, <<>>, o) IN
         Handled("get_mining_info", PyNone, Result(<<info.call>>, info.ret))

\* the bodies sent to /api/mining/generate
GenerateBodies ==
    {PyDict(<<>>), Dict1("address", Lit("addr9")), Dict1("blocks", PyInt(2)),
     Dict2("address", PyStr(<<>>), "blocks", PyInt(2)),
     Dict2("address", Lit("addr9"), "blocks", PyInt(2))}

\* f'No wallet loaded. {error_msg}. Create a wallet first.'
NoWalletText(error_msg) ==
    <<"No wallet loaded", ". ">> \o StrOf(error_msg) \o <<". ", "Create a wallet first.">>

\* generate_blocks asking the last enumerated wallet for the address
generate_blocks_result_LastWallet(body, o1, o2, o3) ==
    LET data == JsonOrEmpty(body)
        nblocks == PyStr(StrOf(DictGet(data, <<"blocks">>, PyInt(1))))
        address == DictGet(data, <<"address">>, PyStr(<<>>))
    IN
    IF Truthy(address)
    THEN LET result == coral_cli(<<"generatetoaddress">>, <<nblocks, address>>, o1) IN
         Result(<<result.call>>, Dict2("result", result.ret, "address", address))
    ELSE
    LET listed == coral_cli(<<"listwallets">>, <<>>, o1)
        wallets == listed.ret
    IN
    IF IsList(wallets) /\ Len(wallets.items) > 0
    THEN LET cmd == <<PyStr(CORAL_CLI), DatadirFlag, WalletFlag(wallets.items[Len(wallets.items)]),
                      Lit("getnewaddress")>>
             addr_result == RunCall(cmd, DEFAULT_TIMEOUT, o2)
         IN IF addr_result.outcome.kind # "exit"
            THEN Result(<<listed.call, addr_result>>, ErrorDict(ExcText(addr_result)))
            ELSE IF addr_result.outcome.code = 0
            THEN LET fresh == PyStr(Strip(addr_result.outcome.stdout))
                     result == coral_cli(<<"generatetoaddress">>, <<nblocks, fresh>>, o3)
                 IN Result(<<listed.call, addr_result, result.call>>,
                           Dict2("result", result.ret, "address", fresh))
            ELSE Result(<<listed.call, addr_result>>,
                        ErrorDict(<<"Could not get address: ">> \o addr_result.outcome.stderr))
    ELSE LET error_msg == IF IsDict(wallets)
                          THEN DictGet(wallets, <<"error">>, Lit("Unknown error"))
                          ELSE Lit("No wallet loaded")
         IN Result(<<listed.call>>, ErrorDict(NoWalletText(error_msg)))

\* generate_blocks dropping the detail of a failed wallet enumeration
generate_blocks_result_Generic(body, o1, o2, o3) ==
    LET data == JsonOrEmpty(body)
        nblocks == PyStr(StrOf(DictGet(data, <<"blocks">>, PyInt(1))))
        address == DictGet(data, <<"address">>, PyStr(<<>>))
    IN
    IF Truthy(address)
    THEN LET result == coral_cli(<<"generatetoaddress">>, <<nblocks, address>>, o1) IN
         Result(<<result.call>>, Dict2("result", result.ret, "address", address))
    ELSE
    LET listed == coral_cli(<<"listwallets">>, <<>>, o1)
        wallets == listed.ret
    IN
    IF IsList(wallets) /\ Len(wallets.items) > 0
    THEN LET cmd == <<PyStr(CORAL_CLI), DatadirFlag, WalletFlag(wallets.items[1]),
                      Lit("getnewaddress")>>
             addr_result == RunCall(cmd, DEFAULT_TIMEOUT, o2)
         IN IF addr_result.outcome.kind # "exit"
            THEN Result(<<listed.call, addr_result>>, ErrorDict(ExcText(addr_result)))
            ELSE IF addr_result.outcome.code = 0
            THEN LET fresh == PyStr(Strip(addr_result.outcome.stdout))
                     result == coral_cli(<<"generatetoaddress">>, <<nblocks, fresh>>, o3)
                 IN Result(<<listed.call, addr_result, result.call>>,
                           Dict2("result", result.ret, "address", fresh))
            ELSE Result(<<listed.call, addr_result>>,
                        ErrorDict(<<"Could not get address: ">> \o addr_result.outcome.stderr))
    ELSE LET error_msg == Lit("No wallet loaded")
         IN Result(<<listed.call>>, ErrorDict(NoWalletText(error_msg)))

generate_blocks_result(body, o1, o2, o3) ==
    LET data == JsonOrEmpty(body)
        nblocks == PyStr(StrOf(DictGet(data, <<"blocks">>, PyInt(1))))
        address == DictGet(data, <<"address">>, PyStr(<<>>))
    IN
    IF Truthy(address)
    THEN LET result == coral_cli(<<"generatetoaddress">>, <<nblocks, address>>, o1) IN
         Result(<<result.call>>, Dict2("result", result.ret, "address", address))
    ELSE
    LET listed == coral_cli(<<"listwallets">>, <<>>, o1)
        wallets == listed.ret
    IN
    IF IsList(wallets) /\ Len(wallets.items) > 0
    THEN LET cmd == <<PyStr(CORAL_CLI), DatadirFlag, WalletFlag(wallets.items[1]),
                      Lit("getnewaddress")>>
             addr_result == RunCall(cmd, DEFAULT_TIMEOUT, o2)
         IN IF addr_result.outcome.kind # "exit"
            THEN Result(<<listed.call, addr_result>>, ErrorDict(ExcText(addr_result)))
            ELSE IF addr_result.outcome.code = 0
            THEN LET fresh == PyStr(Strip(addr_result.outcome.stdout))
                     result == coral_cli(<<"generatetoaddress">>, <<nblocks, fresh>>, o3)
                 IN Result(<<listed.call, addr_result, result.call>>,
                           Dict2("result", result.ret, "address", fresh))
            ELSE Result(<<listed.call, addr_result>>,
                        ErrorDict(<<"Could not get address: ">> \o addr_result.outcome.stderr))
    ELSE LET error_msg == IF IsDict(wallets)
                          THEN DictGet(wallets, <<"error">>, Lit("Unknown error"))
                          ELSE Lit("No wallet loaded")
         IN Result(<<listed.call>>, ErrorDict(NoWalletText(error_msg)))

generate_blocks ==
    /\ pc = "idle"
    /\ \E body \in GenerateBodies, o1, o2, o3 \in RawOutcomes :
         Handled("generate_blocks", body, generate_blocks_result(body, o1, o2, o3))

set_generate ==
    /\ pc = "idle"
    /\ \E body \in {PyDict(<<>>), Dict1("generate", PyBool(TRUE)),
                    Dict2("generate", PyBool(TRUE), "threads", PyInt(2)),
                    Dict1("generate", PyBool(FALSE))},
          o \in RawOutcomes :
         LET data == JsonOrEmpty(body)
             generate == DictGet(data, <<"generate">>, PyBool(FALSE))
             threads == PyStr(StrOf(DictGet(data, <<"threads">>, PyInt(1))))
             result == IF Truthy(generate)
                       THEN coral_cli(<<"setgenerate">>, <<Lit("true"), threads>>, o)
                       ELSE coral_cli(<<"setgenerate">>, <<Lit("false")>>, o)
         IN Handled("set_generate", body,
                Result(<<result.call>>, Dict2("result", result.ret, "generating", generate)))

get_network_hashrate ==
    /\ pc = "idle"
    /\ \E o \in RawOutcomes :
         LET result == coral_cli(<<"getnetworkhashps">>, <<>>, o) IN
         Handled("get_network_hashrate", PyNone,
             Result(<<result.call>>, Dict1("hashrate", result.ret)))

\* the bodies sent to /api/rpc
RpcBodies ==
    {PyDict(<<>>), Dict1("command", PyStr(<<" ", "\n">>)),
     Dict1("command", Lit("getblockcount")),
     Dict1("command", PyStr(<<" ", "getblockhash", " ", " ", "3", "\n">>)),
     Dict1("command", PyStr(<<"sendtoaddress", " ", "addr9", "\f", "2">>))}

execute_rpc_result(body, o) ==
    LET data == JsonOrEmpty(body)
        command == Strip(DictGet(data, <<"command">>, PyStr(<<>>)).s)
        parts == Split(command)
    IN IF Len(command) = 0 THEN Result(<<>>, ErrorDict(<<"No command provided">>))
       ELSE IF Len(parts) = 0 THEN Result(<<>>, ErrorDict(<<"Empty command">>))
       ELSE LET method == parts[1]
                args == IF Len(parts) > 1 THEN StrList(Tail(parts)) ELSE <<>>
                result == coral_cli(method, args, o)
            IN Result(<<result.call>>, Dict1("result", result.ret))

execute_rpc ==
    /\ pc = "idle"
    /\ \E body \in RpcBodies, o \in RawOutcomes :
         Handled("execute_rpc", body, execute_rpc_result(body, o))

get_utxos ==
    /\ pc = "idle"
    /\ \E name \in Names, o \in RawOutcomes :
         LET cmd == <<PyStr(CORAL_CLI), DatadirFlag, WalletFlag(name), Lit("listunspent")>>
             call == RunCall(cmd, DEFAULT_TIMEOUT, o)
             j == Loads(o.stdout)
         IN Handled("get_utxos", name,
                DirectResult(call, [j EXCEPT !.val = Dict1("utxos", j.val)]))

get_addresses ==
    /\ pc = "idle"
    /\ \E name \in Names, o \in RawOutcomes :
         LET cmd == <<PyStr(CORAL_CLI), DatadirFlag, WalletFlag(name),
                      Lit("listreceivedbyaddress"), Lit("0"), Lit("true")>>
             call == RunCall(cmd, DEFAULT_TIMEOUT, o)
             j == Loads(o.stdout)
         IN Handled("get_addresses", name,
                DirectResult(call, [j EXCEPT !.val = Dict1("addresses", j.val)]))

\* the bodies sent to /api/wallet/<name>/importprivkey
ImportBodies ==
    {PyDict(<<>>), Dict1("privkey", Lit("K1")),
     Dict3("privkey", Lit("K1"), "label", Lit("lbl"), "rescan", PyBool(FALSE))}

ImportTimeoutText ==
    <<"Import", " ", "timed out", " ", "(", "rescan", " ", "may still be in progress", ")">>

\* import_privkey without its except TimeoutExpired clause
import_privkey_result_AnyException(name, body, o) ==
    LET data == JsonOrEmpty(body)
        privkey == DictGet(data, <<"privkey">>, PyStr(<<>>))
        label == DictGet(data, <<"label">>, PyStr(<<>>))
        rescan == IF Truthy(DictGet(data, <<"rescan">>, PyBool(TRUE)))
                  THEN Lit("true") ELSE Lit("false")
        cmd == <<PyStr(CORAL_CLI), DatadirFlag, WalletFlag(name), Lit("importprivkey"),
                 privkey, label, rescan>>
        call == RunCall(cmd, IMPORT_TIMEOUT, o)
    IN IF ~Truthy(privkey) THEN Result(<<>>, ErrorDict(<<"No private key provided">>))
       ELSE DirectResult(call,
                Value(Dict2("success", PyBool(TRUE),
                            "message", Lit("Private key imported successfully"))))

import_privkey_result(name, body, o) ==
    LET data == JsonOrEmpty(body)
        privkey == DictGet(data, <<"privkey">>, PyStr(<<>>))
        label == DictGet(data, <<"label">>, PyStr(<<>>))
        rescan == IF Truthy(DictGet(data, <<"rescan">>, PyBool(TRUE)))
                  THEN Lit("true") ELSE Lit("false")
        cmd == <<PyStr(CORAL_CLI), DatadirFlag, WalletFlag(name), Lit("importprivkey"),
                 privkey, label, rescan>>
        call == RunCall(cmd, IMPORT_TIMEOUT, o)
    IN IF ~Truthy(privkey) THEN Result(<<>>, ErrorDict(<<"No private key provided">>))
       ELSE IF call.outcome.kind = "timeout"
       THEN Result(<<call>>, ErrorDict(ImportTimeoutText))
       ELSE DirectResult(call,
                Value(Dict2("success", PyBool(TRUE),
                            "message", Lit("Private key imported successfully"))))

import_privkey ==
    /\ pc = "idle"
    /\ \E name \in Names, body \in ImportBodies, o \in RawOutcomes :
         Handled("import_privkey", Dict2("name", name, "body", body),
             import_privkey_result(name, body, o))

\* the amounts sent to /api/wallet/<name>/send
Amounts ==
    {PyInt(0), PyInt(-1), PyInt(5), Lit("abc"), Lit("2"), Lit("0"),
     PyStr(<<"-", "1">>), PyList(<<>>), PyList(<<PyInt(5)>>)}

SendBodies ==
    {PyDict(<<>>), Dict1("address", Lit("addr9")), Dict1("amount", PyInt(5))}
    \cup {Dict2("address", Lit("addr9"), "amount", a) : a \in Amounts}

\* the amount check without the comparison: only an absent or zero amount is refused
AmountCheck_NoSign(amount) ==
    IF ~Truthy(amount) THEN [refused |-> TRUE, err |-> ""]
    ELSE IF ~FloatOf(amount).ok THEN [refused |-> FALSE, err |-> FloatOf(amount).err]
    ELSE [refused |-> FALSE, err |-> ""]

\* if not amount or float(amount) <= 0: the amount is refused; err names the
\* exception float() raises instead of deciding
AmountCheck(amount) ==
    IF ~Truthy(amount) THEN [refused |-> TRUE, err |-> ""]
    ELSE IF ~FloatOf(amount).ok THEN [refused |-> FALSE, err |-> FloatOf(amount).err]
    ELSE [refused |-> FloatOf(amount).f <= 0, err |-> ""]

send_transaction_result(name, body, o) ==
    LET data == JsonOrEmpty(body)
        address == DictGet(data, <<"address">>, PyStr(<<>>))
        amount == DictGet(data, <<"amount">>, PyInt(0))
        check == AmountCheck(amount)
        cmd == <<PyStr(CORAL_CLI), DatadirFlag, WalletFlag(name), Lit("sendtoaddress"),
                 address, PyStr(StrOf(amount))>>
        call == RunCall(cmd, SEND_TIMEOUT, o)
    IN IF ~Truthy(address) THEN Result(<<>>, ErrorDict(<<"No address provided">>))
       ELSE IF check.err # "" THEN Raised(<<>>, check.err)
       ELSE IF check.refused THEN Result(<<>>, ErrorDict(<<"Invalid amount">>))
       ELSE DirectResult(call, Value(Dict1("txid", PyStr(Strip(o.stdout)))))

send_transaction ==
    /\ pc = "idle"
    /\ \E name \in Names, body \in SendBodies, o \in RawOutcomes :
         Handled("send_transaction", Dict2("name", name, "body", body),
             send_transaction_result(name, body, o))

\* the bodies of the handlers that take one required string field
FieldBodies(k) == {PyDict(<<>>), Dict1(k, PyStr(<<>>)), Dict1(k, Lit("x1"))}

load_wallet ==
    /\ pc = "idle"
    /\ \E body \in FieldBodies("name"), o \in RawOutcomes :
         LET name == DictGet(JsonOrEmpty(body), <<"name">>, PyStr(<<>>))
             result == coral_cli(<<"loadwallet">>, <<name>>, o)
         IN Handled("load_wallet", body,
                IF ~Truthy(name) THEN Result(<<>>, ErrorDict(<<"No wallet name provided">>))
                ELSE Result(<<result.call>>, result.ret))

unload_wallet ==
    /\ pc = "idle"
    /\ \E body \in FieldBodies("name"), o \in RawOutcomes :
         LET name == DictGet(JsonOrEmpty(body), <<"name">>, PyStr(<<>>))
             result == coral_cli(<<"unloadwallet">>, <<name>>, o)
         IN Handled("unload_wallet", body,
                IF ~Truthy(name) THEN Result(<<>>, ErrorDict(<<"No wallet name provided">>))
                ELSE Result(<<result.call>>, result.ret))

list_wallet_dir ==
    /\ pc = "idle"
    /\ \E o \in RawOutcomes :
         LET result == coral_cli(<<"listwalletdir">>, <<>>, o) IN
         Handled("list_wallet_dir", PyNone, Result(<<result.call>>, result.ret))

get_chainstate ==
    /\ pc = "idle"
    /\ \E o1, o2 \in RawOutcomes :
         LET blockchain == coral_cli(<<"getblockchaininfo">>, <<>>, o1)
             txoutset == coral_cli(<<"gettxoutsetinfo">>, <<>>, o2)
         IN Handled("get_chainstate", PyNone,
                Result(<<blockchain.call, txoutset.call>>,
                       Dict2("blockchain", blockchain.ret, "txoutset", txoutset.ret)))

get_network_details ==
    /\ pc = "idle"
    /\ \E o1, o2 \in RawOutcomes :
         LET network == coral_cli(<<"getnetworkinfo">>, <<>>, o1)
             nettotals == coral_cli(<<"getnettotals">>, <<>>, o2)
         IN Handled("get_network_details", PyNone,
                Result(<<network.call, nettotals.call>>,
                       Dict2("network", network.ret, "nettotals", nettotals.ret)))

get_local_addresses ==
    /\ pc = "idle"
    /\ \E o \in RawOutcomes :
         LET network == coral_cli(<<"getnetworkinfo">>, <<>>, o) IN
         Handled("get_local_addresses", PyNone,
             Result(<<network.call>>,
                 IF IsDict(network.ret)
                 THEN Dict1("localaddresses",
                          DictGet(network.ret, <<"localaddresses">>, PyList(<<>>)))
                 ELSE Dict1("localaddresses", PyList(<<>>))))

get_banned ==
    /\ pc = "idle"
    /\ \E o \in RawOutcomes :
         LET result == coral_cli(<<"listbanned">>, <<>>, o) IN
         Handled("get_banned", PyNone,
             Result(<<result.call>>, Dict1("banned", ListOrEmpty(result.ret))))

add_node ==
    /\ pc = "idle"
    /\ \E body \in FieldBodies("node") \cup {Dict2("node", Lit("x1"), "command", Lit("onetry"))},
          o \in RawOutcomes :
         LET data == JsonOrEmpty(body)
             node == DictGet(data, <<"node">>, PyStr(<<>>))
             command == DictGet(data, <<"command">>, Lit("add"))
             result == coral_cli(<<"addnode">>, <<node, command>>, o)
         IN Handled("add_node", body,
                IF ~Truthy(node) THEN Result(<<>>, ErrorDict(<<"No node address provided">>))
                ELSE Result(<<result.call>>, Dict1("result", result.ret)))

disconnect_node ==
    /\ pc = "idle"
    /\ \E body \in FieldBodies("address"), o \in RawOutcomes :
         LET address == DictGet(JsonOrEmpty(body), <<"address">>, PyStr(<<>>))
             result == coral_cli(<<"disconnectnode">>, <<address>>, o)
         IN Handled("disconnect_node", body,
                IF ~Truthy(address) THEN Result(<<>>, ErrorDict(<<"No address provided">>))
                ELSE Result(<<result.call>>, Dict1("result", result.ret)))

get_raw_mempool ==
    /\ pc = "idle"
    /\ \E o \in RawOutcomes :
         LET result == coral_cli(<<"getrawmempool">>, <<Lit("true")>>, o) IN
         Handled("get_raw_mempool", PyNone, Result(<<result.call>>, result.ret))

decode_tx ==
    /\ pc = "idle"
    /\ \E body \in FieldBodies("rawtx"), o \in RawOutcomes :
         LET rawtx == DictGet(JsonOrEmpty(body), <<"rawtx">>, PyStr(<<>>))
             result == coral_cli(<<"decoderawtransaction">>, <<rawtx>>, o)
         IN Handled("decode_tx", body,
                IF ~Truthy(rawtx) THEN Result(<<>>, ErrorDict(<<"No raw transaction provided">>))
                ELSE Result(<<result.call>>, result.ret))

get_raw_tx ==
    /\ pc = "idle"
    /\ \E txid \in {Lit("00ab")}, o \in RawOutcomes :
         LET result == coral_cli(<<"getrawtransaction">>, <<txid, Lit("1")>>, o) IN
         Handled("get_raw_tx", txid, Result(<<result.call>>, result.ret))

broadcast_tx ==
    /\ pc = "idle"
    /\ \E body \in FieldBodies("rawtx"), o \in RawOutcomes :
         LET rawtx == DictGet(JsonOrEmpty(body), <<"rawtx">>, PyStr(<<>>))
             result == coral_cli(<<"sendrawtransaction">>, <<rawtx>>, o)
         IN Handled("broadcast_tx", body,
                IF ~Truthy(rawtx) THEN Result(<<>>, ErrorDict(<<"No raw transaction provided">>))
                ELSE Result(<<result.call>>,
                         Dict1("txid", IF IsStr(result.ret) THEN result.ret ELSE result.ret)))

get_debug_info ==
    /\ pc = "idle"
    /\ \E o1, o2, o3 \in RawOutcomes :
         LET blockchain == coral_cli(<<"getblockchaininfo">>, <<>>, o1)
             network == coral_cli(<<"getnetworkinfo">>, <<>>, o2)
             memory == coral_cli(<<"getmemoryinfo">>, <<>>, o3)
         IN Handled("get_debug_info", PyNone,
                Result(<<blockchain.call, network.call, memory.call>>,
                       Dict3("blockchain", blockchain.ret, "network", network.ret,
                             "memory", memory.ret)))

get_chain_tips ==
    /\ pc = "idle"
    /\ \E o \in RawOutcomes :
         LET result == coral_cli(<<"getchaintips">>, <<>>, o) IN
         Handled("get_chain_tips", PyNone,
             Result(<<result.call>>, Dict1("chaintips", ListOrEmpty(result.ret))))

get_deployment_info ==
    /\ pc = "idle"
    /\ \E o \in RawOutcomes :
         LET result == coral_cli(<<"getdeploymentinfo">>, <<>>, o) IN
         Handled("get_deployment_info", PyNone, Result(<<result.call>>, result.ret))

get_rpc_info ==
    /\ pc = "idle"
    /\ \E o \in RawOutcomes :
         LET result == coral_cli(<<"getrpcinfo">>, <<>>, o) IN
         Handled("get_rpc_info", PyNone, Result(<<result.call>>, result.ret))

get_uptime ==
    /\ pc = "idle"
    /\ \E o \in RawOutcomes :
         LET result == coral_cli(<<"uptime">>, <<>>, o) IN
         Handled("get_uptime", PyNone, Result(<<result.call>>, Dict1("uptime", result.ret)))

get_block_template ==
    /\ pc = "idle"
    /\ \E o \in RawOutcomes :
         LET result == coral_cli(<<"getblocktemplate">>, <<Lit("{\"rules\":[\"segwit\"]}")>>, o) IN
         Handled("get_block_template", PyNone, Result(<<result.call>>, result.ret))

estimate_smart_fee ==
    /\ pc = "idle"
    /\ \E blocks \in {PyInt(1), PyInt(6)}, o \in RawOutcomes :
         LET result == coral_cli(<<"estimatesmartfee">>, <<PyStr(StrOf(blocks))>>, o) IN
         Handled("estimate_smart_fee", blocks, Result(<<result.call>>, result.ret))

validate_address ==
    /\ pc = "idle"
    /\ \E address \in {Lit("addr9")}, o \in RawOutcomes :
         LET result == coral_cli(<<"validateaddress">>, <<address>>, o) IN
         Handled("validate_address", address, Result(<<result.call>>, result.ret))

sign_message ==
    /\ pc = "idle"
    /\ \E name \in Names,
          body \in {PyDict(<<>>), Dict1("address", Lit("addr9")),
                    Dict2("address", Lit("addr9"), "message", PyStr(<<"hi", " ", "there">>))},
          o \in RawOutcomes :
         LET data == JsonOrEmpty(body)
             address == DictGet(data, <<"address">>, PyStr(<<>>))
             message == DictGet(data, <<"message">>, PyStr(<<>>))
             cmd == <<PyStr(CORAL_CLI), DatadirFlag, WalletFlag(name), Lit("signmessage"),
                      address, message>>
             call == RunCall(cmd, DEFAULT_TIMEOUT, o)
         IN Handled("sign_message", Dict2("name", name, "body", body),
                IF ~Truthy(address) \/ ~Truthy(message)
                THEN Result(<<>>, ErrorDict(<<"Address and message required">>))
                ELSE DirectResult(call, Value(Dict1("signature", PyStr(Strip(o.stdout))))))

verify_message ==
    /\ pc = "idle"
    /\ \E body \in {PyDict(<<>>), Dict2("address", Lit("addr9"), "signature", Lit("sig")),
                    Dict3("address", Lit("addr9"), "signature", Lit("sig"),
                          "message", PyStr(<<"hi", " ", "there">>))},
          o \in RawOutcomes :
         LET data == JsonOrEmpty(body)
             address == DictGet(data, <<"address">>, PyStr(<<>>))
             signature == DictGet(data, <<"signature">>, PyStr(<<>>))
             message == DictGet(data, <<"message">>, PyStr(<<>>))
             result == coral_cli(<<"verifymessage">>, <<address, signature, message>>, o)
         IN Handled("verify_message", body,
                IF ~Truthy(address) \/ ~Truthy(signature) \/ ~Truthy(message)
                THEN Result(<<>>, ErrorDict(<<"Address, signature, and message required">>))
                ELSE Result(<<result.call>>, Dict1("valid", result.ret)))

dump_privkey ==
    /\ pc = "idle"
    /\ \E name \in Names, body \in FieldBodies("address"), o \in RawOutcomes :
         LET address == DictGet(JsonOrEmpty(body), <<"address">>, PyStr(<<>>))
             cmd == <<PyStr(CORAL_CLI), DatadirFlag, WalletFlag(name), Lit("dumpprivkey"),
                      address>>
             call == RunCall(cmd, DEFAULT_TIMEOUT, o)
         IN Handled("dump_privkey", Dict2("name", name, "body", body),
                IF ~Truthy(address) THEN Result(<<>>, ErrorDict(<<"No address provided">>))
                ELSE DirectResult(call, Value(Dict1("privkey", PyStr(Strip(o.stdout))))))

get_address_info ==
    /\ pc = "idle"
    /\ \E name \in Names, address \in {Lit("addr9")}, o \in RawOutcomes :
         LET cmd == <<PyStr(CORAL_CLI), DatadirFlag, WalletFlag(name), Lit("getaddressinfo"),
                      address>>
             call == RunCall(cmd, DEFAULT_TIMEOUT, o)
         IN Handled("get_address_info", Dict2("name", name, "address", address),
                DirectResult(call, Loads(o.stdout)))

RescanTimeoutText ==
    <<"Rescan", " ", "timed out", " ", "(", "may still be in progress", ")">>

rescan_blockchain_result(name, body, o) ==
    LET data == JsonOrEmpty(body)
        start_height == DictGet(data, <<"start_height">>, PyInt(0))
        cmd == <<PyStr(CORAL_CLI), DatadirFlag, WalletFlag(name), Lit("rescanblockchain"),
                 PyStr(StrOf(start_height))>>
        call == RunCall(cmd, RESCAN_TIMEOUT, o)
    IN IF call.outcome.kind = "timeout"
       THEN Result(<<call>>, ErrorDict(RescanTimeoutText))
       ELSE DirectResult(call, Loads(o.stdout))

rescan_blockchain ==
    /\ pc = "idle"
    /\ \E name \in Names, body \in {PyDict(<<>>), Dict1("start_height", PyInt(3))},
          o \in RawOutcomes :
         Handled("rescan_blockchain", Dict2("name", name, "body", body),
             rescan_blockchain_result(name, body, o))

----------------------------------------------------------------------------
(* The gateway serving one request after another *)

Init == Idle

Next ==
    \/ get_info \/ get_wallets \/ get_wallet_info \/ get_balance \/ new_address
    \/ get_transactions \/ get_block \/ get_peers \/ get_mempool \/ create_wallet
    \/ get_mining_info \/ generate_blocks \/ set_generate \/ get_network_hashrate
    \/ execute_rpc \/ get_utxos \/ get_addresses \/ import_privkey \/ send_transaction
    \/ load_wallet \/ unload_wallet \/ list_wallet_dir \/ get_chainstate
    \/ get_network_details \/ get_local_addresses \/ get_banned \/ add_node
    \/ disconnect_node \/ get_raw_mempool \/ decode_tx \/ get_raw_tx \/ broadcast_tx
    \/ get_debug_info \/ get_chain_tips \/ get_deployment_info \/ get_rpc_info
    \/ get_uptime \/ get_block_template \/ estimate_smart_fee \/ validate_address
    \/ sign_message \/ verify_message \/ dump_privkey \/ get_address_info
    \/ rescan_blockchain \/ finish_request

Spec == Init /\ [][Next]_vars

----------------------------------------------------------------------------
(* get_recent_blocks, one loop iteration at a time *)

\* the number of blocks the summary covers at most
RECENT_COUNT == 10

Min(a, b) == IF a < b THEN a ELSE b

StdoutHeight(h) == <<"{", "\"", "blocks", "\"", ":", " ", ToString(h), "}", "\n">>
StdoutBlock ==
    <<"{", "\"", "time", "\"", ":", "7", ",", "\"", "tx", "\"", ":", "[", "\"", "t1", "\"", "]",
      ",", "\"", "size", "\"", ":", "2", ",", "\"", "weight", "\"", ":", "8", "}", "\n">>

\* what getblockchaininfo may answer
ChainOutcomes ==
    {Exited(0, StdoutHeight(h), <<>>) : h \in 0..MaxHeight}
    \cup {Exited(0, <<"[", "]", "\n">>, <<>>), Exited(1, <<>>, StderrBoom), TimedOut}

\* what getblockhash may answer: the hash, or a failure
HashOutcomes == {Exited(0, <<"00ab", "\n">>, <<>>), Exited(1, <<>>, StderrBoom)}
\* what getblock may answer: the block, or a failure
BlockOutcomes == {Exited(0, StdoutBlock, <<>>), Exited(1, <<>>, StderrBoom)}

\* len(v), for the values that have one
PyLen(v) == IF IsList(v) THEN Len(v.items) ELSE Len(v.s)

\* the projection of one block
BlockEntry(block_height, blockhash, block) ==
    PyDict((<<"height">> :> PyInt(block_height))
        @@ (<<"hash">> :> blockhash)
        @@ (<<"time">> :> DictGet(block, <<"time">>, PyInt(0)))
        @@ (<<"tx_count">> :> PyInt(PyLen(DictGet(block, <<"tx">>, PyList(<<>>)))))
        @@ (<<"size">> :> DictGet(block, <<"size">>, PyInt(0)))
        @@ (<<"weight">> :> DictGet(block, <<"weight">>, PyInt(0))))

\* range(min(10, height + 1)) has an i-th element
InRange(i, height) == i < Min(RECENT_COUNT, height + 1)

\* blocks = []; blockchain = coral_cli('getblockchaininfo'); the loop is entered
\* when the answer is a dict with 'blocks' and the range is not empty
get_recent_blocks_begin ==
    /\ pc = "idle"
    /\ \E o \in ChainOutcomes :
         LET blockchain == coral_cli(<<"getblockchaininfo">>, <<>>, o)
             known == IsDict(blockchain.ret) /\ HasKey(blockchain.ret, <<"blocks">>)
             height == blockchain.ret.d[<<"blocks">>].n
         IN IF known /\ InRange(0, height)
            THEN /\ pc' = "loop"
                 /\ op' = "get_recent_blocks"
                 /\ req' = PyNone
                 /\ calls' = <<blockchain.call>>
                 /\ resp' = PyNone
                 /\ raised' = ""
                 /\ loc' = [height |-> height, i |-> 0, blocks |-> <<>>]
            ELSE /\ Handled("get_recent_blocks", PyNone,
                        Result(<<blockchain.call>>, Dict1("blocks", PyList(<<>>))))

\* the iteration appending whatever block was fetched, the hash resolved or not
RecentAppend_Unchecked(blocks, block_height, blockhash, block) ==
    IF IsDict(block)
    THEN Append(blocks, BlockEntry(block_height, blockhash, block))
    ELSE blocks

\* the blocks list after the iteration for block_height
RecentAppend(blocks, block_height, blockhash, block) ==
    IF IsStr(blockhash) /\ IsDict(block)
    THEN Append(blocks, BlockEntry(block_height, blockhash, block))
    ELSE blocks

\* one iteration of the loop, and the return after the last one
get_recent_blocks_iter ==
    /\ pc = "loop"
    /\ \E o1 \in HashOutcomes, o2 \in BlockOutcomes :
         LET block_height == loc.height - loc.i
             lookup == coral_cli(<<"getblockhash">>, <<PyStr(StrOf(PyInt(block_height)))>>, o1)
             fetch == coral_cli(<<"getblock">>, <<lookup.ret>>, o2)
             blocks == RecentAppend(loc.blocks, block_height, lookup.ret, fetch.ret)
         IN /\ calls' = calls \o (IF IsStr(lookup.ret) THEN <<lookup.call, fetch.call>>
                                  ELSE <<lookup.call>>)
            /\ loc' = [loc EXCEPT !.i = loc.i + 1, !.blocks = blocks]
            /\ IF InRange(loc.i + 1, loc.height)
               THEN UNCHANGED <<pc, resp>>
               ELSE pc' = "done" /\ resp' = Dict1("blocks", PyList(blocks))
            /\ UNCHANGED <<op, req, raised>>

NextRecent == get_recent_blocks_begin \/ get_recent_blocks_iter \/ finish_request

SpecRecent == Init /\ [][NextRecent]_vars

----------------------------------------------------------------------------
(* Properties *)

\* t is s without its leading and trailing whitespace
Trimmed(t, s) ==
    /\ Len(t) > 0 => (t[1] \notin StripWs /\ t[Len(t)] \notin StripWs)
    /\ \E i \in 0..Len(s) :
         /\ i + Len(t) <= Len(s)
         /\ SubSeq(s, i + 1, i + Len(t)) = t
         /\ \A k \in (1..i) \cup ((i + Len(t) + 1)..Len(s)) : s[k] \in StripWs

\* {'error': detail} and nothing else
IsFailure(v, detail) ==
    /\ IsDict(v)
    /\ DOMAIN v.d = {<<"error">>}
    /\ IsStr(v.d[<<"error">>])
    /\ v.d[<<"error">>].s = detail

\* C5: coral_cli decodes every raw outcome to exactly one result and raises
\* nothing: a timeout gives the failure 'Command timed out', a process that
\* could not be started the failure with its cause, a non-zero exit the failure
\* with the trimmed stderr, a zero exit the decoded value when stdout is JSON
\* and the trimmed stdout text when it is not.
C5_DecodePolicy ==
    (pc = "done" /\ op = "coral_cli") =>
        LET o == calls[1].outcome IN
        /\ Len(calls) = 1
        /\ raised = ""
        /\ o.kind = "timeout" => IsFailure(resp, <<"Command timed out">>)
        /\ o.kind = "oserror" => IsFailure(resp, o.cause)
        /\ (o.kind = "exit" /\ o.code # 0) =>
               /\ IsErrorDict(resp)
               /\ DOMAIN resp.d = {<<"error">>}
               /\ IsStr(resp.d[<<"error">>])
               /\ Trimmed(resp.d[<<"error">>].s, o.stderr)
        /\ (o.kind = "exit" /\ o.code = 0 /\ json_loads(o.stdout).ok) =>
               resp = json_loads(o.stdout).val
        /\ (o.kind = "exit" /\ o.code = 0 /\ ~json_loads(o.stdout).ok) =>
               IsStr(resp) /\ Trimmed(resp.s, o.stdout)

\* a zero exit whose stdout is not JSON and has whitespace around it came back
\* as the trimmed text
C5_Witness ==
    /\ pc = "done" /\ op = "coral_cli"
    /\ calls[1].outcome.kind = "exit" /\ calls[1].outcome.code = 0
    /\ calls[1].outcome.stdout = <<"\f", "[", "1", "]">>
    /\ resp = PyStr(<<"[", "1", "]">>)

\* the method of an invocation that coral_cli built (no wallet flag)
CliMethod(call) == call.argv[3]

\* the positions in calls of the coral_cli invocations of method
CallsOf(method) == {k \in 1..Len(calls) : CliMethod(calls[k]) = Lit(method)}

\* every token of s spells a number, and there is one
PurelyNumeric(s) == s # <<>> /\ \A k \in 1..Len(s) : \E n \in 0..MaxNum : s[k] = ToString(n)

\* C1: get_block runs getblockhash if and only if the identifier is purely
\* numeric.  A non-numeric identifier goes straight to getblock as the hash.  For
\* a numeric one getblockhash runs first, and when it fails its failure is the
\* response and getblock is not run.
C1_BlockLookup ==
    (pc = "done" /\ op = "get_block") =>
        /\ raised = ""
        /\ (CallsOf("getblockhash") # {}) <=> PurelyNumeric(req.s)
        /\ ~PurelyNumeric(req.s) =>
               /\ Len(calls) = 1
               /\ calls[1].argv = <<PyStr(CORAL_CLI), DatadirFlag, Lit("getblock"), req>>
        /\ PurelyNumeric(req.s) =>
               /\ calls[1].argv = <<PyStr(CORAL_CLI), DatadirFlag, Lit("getblockhash"), req>>
               /\ CallsOf("getblock") \subseteq {2}
               /\ CallFailed(calls[1]) =>
                      /\ CallsOf("getblock") = {}
                      /\ IsFailure(resp, FailureDetail(calls[1]))

\* a numeric identifier whose getblockhash timed out: one invocation, and the
\* timeout is the response
C1_Witness ==
    /\ pc = "done" /\ op = "get_block"
    /\ req = Lit("3")
    /\ Len(calls) = 1
    /\ calls[1].outcome.kind = "timeout"
    /\ resp = ErrorDict(<<"Command timed out">>)

\* the address field of the body sent to generate_blocks: '' when there is none
SuppliedAddress == DictGet(JsonOrEmpty(req), <<"address">>, PyStr(<<>>))

\* listwallets, the first invocation, answered with a list of at least one wallet
WalletsLoaded ==
    /\ calls[1].outcome.kind = "exit" /\ calls[1].outcome.code = 0
    /\ json_loads(calls[1].outcome.stdout).ok
    /\ IsList(json_loads(calls[1].outcome.stdout).val)
    /\ json_loads(calls[1].outcome.stdout).val.items # <<>>

FirstWallet == json_loads(calls[1].outcome.stdout).val.items[1]

Succeeded(call) == call.spawned /\ call.outcome.kind = "exit" /\ call.outcome.code = 0

\* C2: generate_blocks without an address and with a wallet loaded asks the first
\* enumerated wallet for a new address, mines only after that address was
\* obtained, to exactly that address, and reports it beside the mining result.
\* With an address supplied it mines to that address and reports it.
C2_MineToAddress ==
    (pc = "done" /\ op = "generate_blocks") =>
        /\ Truthy(SuppliedAddress) =>
               /\ Len(calls) = 1
               /\ CliMethod(calls[1]) = Lit("generatetoaddress")
               /\ calls[1].argv[5] = SuppliedAddress
               /\ IsDict(resp) /\ DOMAIN resp.d = {<<"result">>, <<"address">>}
               /\ resp.d[<<"address">>] = SuppliedAddress
               /\ resp.d[<<"result">>] = CliDecode(calls[1])
        /\ (~Truthy(SuppliedAddress) /\ WalletsLoaded) =>
               /\ CliMethod(calls[1]) = Lit("listwallets")
               /\ Len(calls) >= 2
               /\ calls[2].argv = <<PyStr(CORAL_CLI), DatadirFlag,
                                    PyStr(<<"-rpcwallet=">> \o FirstWallet.s),
                                    Lit("getnewaddress")>>
               /\ (Len(calls) = 3) <=> Succeeded(calls[2])
               /\ \A k \in 1..Len(calls) :
                      calls[k].argv[3] = Lit("generatetoaddress") => k = 3
               /\ Len(calls) = 3 =>
                      /\ CliMethod(calls[3]) = Lit("generatetoaddress")
                      /\ IsStr(calls[3].argv[5])
                      /\ Trimmed(calls[3].argv[5].s, calls[2].outcome.stdout)
                      /\ IsDict(resp) /\ DOMAIN resp.d = {<<"result">>, <<"address">>}
                      /\ resp.d[<<"address">>] = calls[3].argv[5]
                      /\ resp.d[<<"result">>] = CliDecode(calls[3])

\* no address, wallets w1 and w2 loaded: w1 gave the address 00ab, and the
\* mining went to it and reports it
C2_Witness ==
    /\ pc = "done" /\ op = "generate_blocks"
    /\ ~Truthy(SuppliedAddress)
    /\ Len(calls) = 3
    /\ calls[1].outcome.stdout = StdoutWallets
    /\ calls[2].argv[3] = PyStr(<<"-rpcwallet=", "w1">>)
    /\ calls[2].outcome.stdout = <<"00ab", "\n">>
    /\ calls[3].argv[5] = Lit("00ab")
    /\ Succeeded(calls[3])
    /\ resp.d[<<"address">>] = Lit("00ab")

\* the detail of the response when it is {'error': <str>}, <<>> otherwise
ErrorDetail(v) ==
    IF IsErrorDict(v) /\ IsStr(v.d[<<"error">>]) THEN v.d[<<"error">>].s ELSE <<>>

\* C3: generate_blocks without an address and without a loaded wallet (the
\* enumeration gave an empty list, no list, or failed) answers an error whose
\* detail holds 'No wallet loaded' and, when the enumeration failed, the detail
\* of that failure; it neither asks for an address nor mines.
C3_NoWalletLoaded ==
    (pc = "done" /\ op = "generate_blocks" /\ ~Truthy(SuppliedAddress)
        /\ ~WalletsLoaded) =>
        /\ Len(calls) = 1
        /\ CliMethod(calls[1]) = Lit("listwallets")
        /\ IsErrorDict(resp) /\ DOMAIN resp.d = {<<"error">>}
        /\ Contains(ErrorDetail(resp), <<"No wallet loaded">>)
        /\ CallFailed(calls[1]) =>
               /\ FailureDetail(calls[1]) # <<>>
               /\ Contains(ErrorDetail(resp), FailureDetail(calls[1]))

\* listwallets exited non-zero with "error: boom": the response names both
C3_Witness ==
    /\ pc = "done" /\ op = "generate_blocks"
    /\ ~Truthy(SuppliedAddress)
    /\ Len(calls) = 1
    /\ calls[1].outcome = Exited(1, <<>>, StderrBoom)
    /\ Contains(ErrorDetail(resp), <<"No wallet loaded">>)
    /\ Contains(ErrorDetail(resp), <<"error:", " ", "boom">>)

Max(a, b) == IF a > b THEN a ELSE b

\* the entries collected so far and, once the handler returned, those it returned
RecentEntries ==
    IF pc = "loop" THEN loc.blocks
    ELSE IF IsDict(resp) /\ HasKey(resp, <<"blocks">>) /\ IsList(resp.d[<<"blocks">>])
    THEN resp.d[<<"blocks">>].items
    ELSE <<>>

EntryHeight(e) == e.d[<<"height">>].n

\* str(n) as coral_cli receives it, and the height such an argument names
HeightArg == [n \in 0..MaxHeight |-> PyStr(<<ToString(n)>>)]
HeightOf(arg) == CHOOSE n \in 0..MaxHeight : HeightArg[n] = arg

\* the invocations that resolve the hash of a height
LookupCalls == {k \in 1..Len(calls) : CliMethod(calls[k]) = Lit("getblockhash")}

\* the heights whose hash resolution was invoked, and those where it failed
LookedUp == {HeightOf(calls[k].argv[4]) : k \in LookupCalls}
FailedLookups == {HeightOf(calls[k].argv[4]) : k \in {j \in LookupCalls : CallFailed(calls[j])}}

EntryHeights(entries) == {EntryHeight(entries[k]) : k \in 1..Len(entries)}

\* C4: at chain height h >= 0 the recent-blocks summary has at most min(10, h+1)
\* entries, each with a height in max(0, h-9)..h, in strictly descending order
\* from the tip; a height whose hash resolution failed has no entry, and the
\* failure does not end the summary: every height of the range is still
\* resolved and the response is the list of blocks, not an error.
C4_RecentBlocks ==
    (op = "get_recent_blocks" /\ loc # PyNone) =>
        LET h == loc.height
            entries == RecentEntries
        IN /\ h >= 0
           /\ Len(entries) <= Min(RECENT_COUNT, h + 1)
           /\ EntryHeights(entries) \subseteq Max(0, h - 9)..h
           /\ EntryHeights(entries) \cap FailedLookups = {}
           /\ \A k \in 1..(Len(entries) - 1) :
                  EntryHeight(entries[k]) > EntryHeight(entries[k + 1])
           /\ EntryHeights(entries) \subseteq LookedUp
           /\ LookedUp = (h - loc.i + 1)..h
           /\ pc = "done" =>
                  /\ raised = ""
                  /\ IsDict(resp) /\ DOMAIN resp.d = {<<"blocks">>}
                  /\ IsList(resp.d[<<"blocks">>])
                  /\ LookedUp = Max(0, h - 9)..h

\* at height 3 the hash of height 2 could not be resolved: the summary returns
\* the heights 3, 1, 0
C4_Witness ==
    /\ pc = "done" /\ op = "get_recent_blocks" /\ loc # PyNone
    /\ loc.height = 3
    /\ FailedLookups = {2}
    /\ Len(RecentEntries) = 3
    /\ EntryHeight(RecentEntries[1]) = 3
    /\ EntryHeight(RecentEntries[2]) = 1
    /\ EntryHeight(RecentEntries[3]) = 0

\* the JSON body of a request that carries one, {} when it has none
Body ==
    IF ~IsDict(req) THEN PyDict(<<>>)
    ELSE IF HasKey(req, <<"body">>) THEN JsonOrEmpty(req.d[<<"body">>])
    ELSE req

\* the address and the amount of a send request, as the handler reads them
SendAddress == DictGet(Body, <<"address">>, PyStr(<<>>))
SendAmount == DictGet(Body, <<"amount">>, PyInt(0))

\* the amount is a number, or the text of one, that is zero or negative
NonPositive(amount) == FloatOf(amount).ok /\ FloatOf(amount).f <= 0
Positive(amount) == FloatOf(amount).ok /\ FloatOf(amount).f > 0

\* C6: send_transaction answers a request without an address, or without an
\* amount, or with a zero or negative amount, with an error and spawns no
\* process; it spawns a process only for a request with an address and a
\* positive amount.
C6_SendValidation ==
    (pc = "done" /\ op = "send_transaction") =>
        /\ (\/ ~HasKey(Body, <<"address">>) \/ ~Truthy(SendAddress)
            \/ ~HasKey(Body, <<"amount">>) \/ NonPositive(SendAmount)) =>
               /\ calls = <<>>
               /\ raised = ""
               /\ IsErrorDict(resp) /\ DOMAIN resp.d = {<<"error">>}
               /\ ErrorDetail(resp) \in {<<"No address provided">>, <<"Invalid amount">>}
        /\ calls # <<>> =>
               /\ Len(calls) = 1
               /\ Truthy(SendAddress)
               /\ Positive(SendAmount)
               /\ calls[1].argv[5] = SendAddress

\* the amount "-1" sent to addr9 is refused and nothing was spawned
C6_Witness ==
    /\ pc = "done" /\ op = "send_transaction"
    /\ SendAddress = Lit("addr9")
    /\ SendAmount = PyStr(<<"-", "1">>)
    /\ calls = <<>>
    /\ resp = ErrorDict(<<"Invalid amount">>)

\* C7: a failure of the send operation surfaces as a structured error payload
\* with a detail text and never as an exception leaving the handler: an amount
\* that is not parseable as a number is answered with a validation error.
C7_SendStructuredError ==
    (pc = "done" /\ op = "send_transaction") =>
        /\ raised = ""
        /\ (Truthy(SendAmount) /\ ~FloatOf(SendAmount).ok) =>
               /\ IsErrorDict(resp)
               /\ ErrorDetail(resp) # <<>>

\* C8, for the operations that answer from a single invocation: when that
\* invocation failed (timeout, non-zero exit or failure to start), the response
\* is an error payload whose error field holds the detail of the failure; the
\* failure is not answered with a payload of another shape (an empty list, or
\* the error nested inside a result field).
C8_FailureSurfaced ==
    (pc = "done" /\ raised = "" /\ Len(calls) = 1 /\ CallFailed(calls[1])) =>
        /\ IsErrorDict(resp)
        /\ IsStr(resp.d[<<"error">>])
        /\ ErrorDetail(resp) # <<>>

LongRunning == {"import_privkey", "rescan_blockchain"}

\* C9: import_privkey and rescan_blockchain answer a timeout of their
\* invocation with a detail that says the operation timed out and that the work
\* may still be in progress; a non-zero exit is answered with the trimmed
\* stderr and a failure to start with its cause, neither of which is that detail.
C9_TimeoutDistinguished ==
    (pc = "done" /\ op \in LongRunning /\ calls # <<>>) =>
        /\ Len(calls) = 1
        /\ calls[1].timeout = (IF op = "import_privkey" THEN IMPORT_TIMEOUT ELSE RESCAN_TIMEOUT)
        /\ calls[1].outcome.kind = "timeout" =>
               /\ IsErrorDict(resp) /\ DOMAIN resp.d = {<<"error">>}
               /\ Contains(ErrorDetail(resp), <<"timed out">>)
               /\ Contains(ErrorDetail(resp), <<"may still be in progress">>)
        /\ (calls[1].outcome.kind = "exit" /\ calls[1].outcome.code # 0) =>
               /\ IsFailure(resp, Strip(calls[1].outcome.stderr))
               /\ ~Contains(ErrorDetail(resp), <<"may still be in progress">>)
        /\ calls[1].outcome.kind = "oserror" =>
               /\ IsFailure(resp, calls[1].outcome.cause)
               /\ ~Contains(ErrorDetail(resp), <<"may still be in progress">>)

\* the import of a key ran into its timeout of 300 seconds
C9_Witness ==
    /\ pc = "done" /\ op = "import_privkey"
    /\ Len(calls) = 1
    /\ calls[1].timeout = 300
    /\ calls[1].outcome.kind = "timeout"
    /\ resp = ErrorDict(ImportTimeoutText)

\* the operations of one wallet, the name of which is part of the URL
WalletOps ==
    {"get_wallet_info", "get_balance", "new_address", "get_transactions", "get_utxos",
     "get_addresses", "import_privkey", "send_transaction", "sign_message",
     "dump_privkey", "get_address_info", "rescan_blockchain"}

\* invocation k is made for one wallet: every invocation of a wallet operation,
\* and the request for a new address that generate_blocks makes
WalletScoped(k) == op \in WalletOps \/ (op = "generate_blocks" /\ k = 2)

\* the wallet invocation k is scoped to
ScopeName(k) ==
    IF op = "generate_blocks" THEN FirstWallet
    ELSE IF IsStr(req) THEN req
    ELSE req.d[<<"name">>]

\* a is one of the flags that precede the method
IsWalletFlag(a) == IsStr(a) /\ Len(a.s) > 0 /\ a.s[1] = "-rpcwallet="
IsGlobalFlag(a) == IsWalletFlag(a) \/ (IsStr(a) /\ Len(a.s) > 0 /\ a.s[1] = "-datadir=")

\* the place of the method in the argument vector of invocation k
MethodPos(k) == IF WalletScoped(k) THEN 4 ELSE 3

\* what follows the method in the argument vector a of invocation k
ArgsOf(k) == SubSeq(calls[k].argv, MethodPos(k) + 1, Len(calls[k].argv))
MethodOf(k) == calls[k].argv[MethodPos(k)]

\* the field f of the body, d when the body does not have it
Field(f, d) == DictGet(Body, <<f>>, d)

\* the method and the arguments the caller of the operation asked for, for the
\* operations that pass more than one caller-supplied argument
CallerOrder(k) ==
    CASE op = "send_transaction" ->
             /\ MethodOf(k) = Lit("sendtoaddress")
             /\ ArgsOf(k) = <<SendAddress, PyStr(StrOf(SendAmount))>>
      [] op = "import_privkey" ->
             /\ MethodOf(k) = Lit("importprivkey")
             /\ Len(ArgsOf(k)) = 3
             /\ ArgsOf(k)[1] = Field("privkey", PyStr(<<>>))
             /\ ArgsOf(k)[2] = Field("label", PyStr(<<>>))
             /\ ArgsOf(k)[3] \in {Lit("true"), Lit("false")}
      [] op = "sign_message" ->
             /\ MethodOf(k) = Lit("signmessage")
             /\ ArgsOf(k) = <<Field("address", PyNone), Field("message", PyNone)>>
      [] op = "verify_message" ->
             /\ MethodOf(k) = Lit("verifymessage")
             /\ ArgsOf(k) = <<Field("address", PyNone), Field("signature", PyNone),
                              Field("message", PyNone)>>
      [] op = "add_node" ->
             /\ MethodOf(k) = Lit("addnode")
             /\ ArgsOf(k) = <<Field("node", PyNone), Field("command", Lit("add"))>>
      [] op = "execute_rpc" ->
             <<MethodOf(k)>> \o ArgsOf(k) = StrList(Split(Field("command", PyStr(<<>>)).s))
      [] op = "generate_blocks" /\ Truthy(SuppliedAddress) ->
             /\ MethodOf(k) = Lit("generatetoaddress")
             /\ ArgsOf(k) = <<PyStr(StrOf(Field("blocks", PyInt(1)))), SuppliedAddress>>
      [] OTHER -> TRUE

FailedFetches ==
    {HeightOf(calls[k].argv[4]) :
        k \in {j \in LookupCalls : /\ j + 1 <= Len(calls)
                                   /\ CliMethod(calls[j + 1]) = Lit("getblock")
                                   /\ CallFailed(calls[j + 1])}}

\* C11: a height has an entry in the recent-blocks summary only if both the
\* resolution of its hash and the fetch of its block succeeded: a height whose
\* block fetch failed has no entry.
C11_FetchFailureOmitted ==
    (op = "get_recent_blocks" /\ loc # PyNone) =>
        /\ EntryHeights(RecentEntries) \cap FailedLookups = {}
        /\ EntryHeights(RecentEntries) \cap FailedFetches = {}

====
